---- MODULE Spec2Model ----
(***************************************************************************)
(* Model of the mini blockchain ledger of src/console_main.py              *)
(* (BlockchainConsole and TransactionWrapper), together with the           *)
(* Blockchain / Block classes it imports from miner.py and block.py.       *)
(*                                                                         *)
(* Money is a Python float in the program.  The model keeps every amount   *)
(* as an exact integer number of units, Unit units to one whole coin,      *)
(* where Unit = 40^MaxAssess: the levy is balance * 0.025 = balance / 40,  *)
(* so after at most MaxAssess assessments every balance is still a whole   *)
(* number of units and no rounding happens in the model.                   *)
(***************************************************************************)
EXTENDS Integers, Sequences, FiniteSets, TLC

VARIABLES accounts, pending_transactions, chain, assessments, tampered,
          audit, pre, lastOp

vars == <<accounts, pending_transactions, chain, assessments, tampered,
          audit, pre, lastOp>>

(***************************************************************************)
(* Bounds of the model.                                                    *)
(***************************************************************************)
MaxAssess == 2
MaxPending == 2

RECURSIVE Pow(_, _)
Pow(b, n) == IF n = 0 THEN 1 ELSE b * Pow(b, n - 1)

Unit == Pow(40, MaxAssess)

Coins(n) == n * Unit

(***************************************************************************)
(* Inputs typed at the prompts.  "" is an empty line; a number that does   *)
(* not parse raises ValueError (parsed = FALSE).  Every input that a       *)
(* handler refuses is tried together with inputs that are otherwise fine.  *)
(***************************************************************************)
Parsed(n) == [parsed |-> TRUE, val |-> n * Unit]

Unparsed == [parsed |-> FALSE, val |-> 0]

Amounts == {Parsed(50), Parsed(100)}

Timestamps == {1}

\* <<account name, roll number, initial balance>>
AccountInputs ==
    {<<"A", "r1", Parsed(100)>>, <<"A", "r2", Parsed(50)>>,
     <<"B", "r2", Parsed(100)>>,
     <<"", "r1", Parsed(100)>>, <<"A", "", Parsed(100)>>,
     <<"A", "r1", Unparsed>>, <<"A", "r1", Parsed(-1)>>}

\* <<sender number, receiver number, amount>> for a menu of n accounts
TransactionInputs(n) ==
    ((1..n) \X (1..n) \X Amounts)
    \cup {<<0, 1, Parsed(50)>>, <<n + 1, 1, Parsed(50)>>,
          <<1, 0, Parsed(50)>>, <<1, n + 1, Parsed(50)>>,
          <<1, 2, Unparsed>>, <<1, 2, Parsed(0)>>}

(***************************************************************************)
(* self.accounts: a dict name -> {"balance", "roll_no"}.  A Python dict    *)
(* iterates in insertion order, so the dict is a sequence of entries in    *)
(* the order of insertion, with at most one entry per name.                *)
(***************************************************************************)
Keys(accts) == {accts[i].name : i \in 1..Len(accts)}

Has(accts, name) == name \in Keys(accts)

IndexOf(accts, name) == CHOOSE i \in 1..Len(accts) : accts[i].name = name

Balance(accts, name) == accts[IndexOf(accts, name)].balance

RollNo(accts, name) == accts[IndexOf(accts, name)].roll_no

SetBalance(accts, name, b) ==
    [accts EXCEPT ![IndexOf(accts, name)].balance = b]

\* accts[name] = entry: a new key goes last, an existing key keeps its place.
DictSet(accts, name, entry) ==
    IF Has(accts, name)
    THEN [accts EXCEPT ![IndexOf(accts, name)] = entry]
    ELSE Append(accts, entry)

RECURSIVE SumBalances(_)
SumBalances(accts) ==
    IF accts = <<>> THEN 0
    ELSE Head(accts).balance + SumBalances(Tail(accts))

(***************************************************************************)
(* Block and Blockchain (block.py, miner.py).  A block's hash is computed  *)
(* once, at construction, over (prev_hash, timestamp, roll_no,             *)
(* transactions).  The hash is collision free: it is the tuple of the      *)
(* hashed fields, so two blocks have the same hash exactly when all four   *)
(* fields agree, entry order included.                                     *)
(***************************************************************************)
GenesisPrevHash == <<>>

GenesisTimestamp == 0

calculate_hash(prev_hash, timestamp, roll_no, transactions) ==
    <<prev_hash, timestamp, roll_no, transactions>>

Block(prev_hash, timestamp, roll_no, transactions) ==
    [prev_hash    |-> prev_hash,
     timestamp    |-> timestamp,
     roll_no      |-> roll_no,
     transactions |-> transactions,
     hash         |-> calculate_hash(prev_hash, timestamp, roll_no, transactions)]

Entry(kind, sender, sender_roll, receiver, receiver_roll, amount) ==
    [kind |-> kind, sender |-> sender, sender_roll |-> sender_roll,
     receiver |-> receiver, receiver_roll |-> receiver_roll, amount |-> amount]

GenesisEntries == <<Entry("Genesis Block", "", "", "", "", 0)>>

\* Blockchain(roll_no): a chain holding only the genesis block.
Blockchain(roll_no) ==
    <<Block(GenesisPrevHash, GenesisTimestamp, roll_no, GenesisEntries)>>

\* Blockchain.add_block(transactions, roll_no), at time now: nothing is
\* appended for an empty entry list; otherwise one block linked to the tail.
add_block(ch, transactions, roll_no, now) ==
    IF transactions = <<>>
    THEN [success |-> FALSE, chain |-> ch]
    ELSE [success |-> TRUE,
          chain   |-> Append(ch, Block(ch[Len(ch)].hash, now, roll_no, transactions))]

\* Block.verify(): the stored hash matches a fresh recomputation.
verify(b) ==
    b.hash = calculate_hash(b.prev_hash, b.timestamp, b.roll_no, b.transactions)

\* Blockchain.is_valid(): a bare boolean verdict.
is_valid(ch) ==
    /\ \A i \in 1..Len(ch) : verify(ch[i])
    /\ \A i \in 2..Len(ch) : ch[i].prev_hash = ch[i - 1].hash

(***************************************************************************)
(* The levy.                                                               *)
(***************************************************************************)
zakat_threshold == 100

RateNum == 25

RateDen == 1000

\* calculate_zakat(balance, rate=0.025): balance * rate.
calculate_zakat(balance) == (balance * RateNum) \div RateDen

\* f"{x:.2f}": x rounded to a whole number of cents, ties to even.
Fmt2(x) ==
    LET q == (x * 100) \div Unit
        r == (x * 100) % Unit
    IN  IF 2 * r < Unit THEN q
        ELSE IF 2 * r > Unit THEN q + 1
        ELSE IF q % 2 = 0 THEN q ELSE q + 1

\* One element of zakat_details: f"{account_name} ({roll_no}): {zakat_amount:.2f}".
ZakatDetail(name, roll_no, zakat_amount) ==
    [name |-> name, roll_no |-> roll_no, amount |-> Fmt2(zakat_amount)]

\* Mutant of zakat_due: a balance equal to the threshold is not charged.
zakat_due_strict(balance) == balance > Coins(zakat_threshold)

\* if balance >= zakat_threshold
zakat_due(balance) == balance >= Coins(zakat_threshold)

\* The for loop of apply_zakat_to_accounts, from position i of the dict on.
RECURSIVE ZakatLoop(_, _, _, _)
ZakatLoop(accts, i, zakat_collected, zakat_details) ==
    IF i > Len(accts)
    THEN [accounts |-> accts, zakat_collected |-> zakat_collected,
          zakat_details |-> zakat_details]
    ELSE LET balance == accts[i].balance
             zakat_amount == calculate_zakat(balance)
         IN  IF zakat_due(balance)
             THEN ZakatLoop([accts EXCEPT ![i].balance = balance - zakat_amount],
                            i + 1,
                            zakat_collected + zakat_amount,
                            Append(zakat_details,
                                   ZakatDetail(accts[i].name, accts[i].roll_no,
                                               zakat_amount)))
             ELSE ZakatLoop(accts, i + 1, zakat_collected, zakat_details)

apply_zakat_to_accounts(accts) == ZakatLoop(accts, 1, 0, <<>>)

(***************************************************************************)
(* TransactionWrapper.                                                     *)
(***************************************************************************)
TransactionWrapper(sender, receiver, amount) ==
    [sender |-> sender, receiver |-> receiver, amount |-> amount]

\* Mutant of apply_to_accounts: a balance equal to the amount is refused.
apply_to_accounts_strict(accts, tx) ==
    IF ~Has(accts, tx.sender) \/ ~Has(accts, tx.receiver)
    THEN [raised |-> TRUE, accounts |-> accts]
    ELSE IF Balance(accts, tx.sender) <= tx.amount
    THEN [raised |-> TRUE, accounts |-> accts]
    ELSE LET debited == SetBalance(accts, tx.sender,
                                   Balance(accts, tx.sender) - tx.amount)
         IN  [raised |-> FALSE,
              accounts |-> SetBalance(debited, tx.receiver,
                                      Balance(debited, tx.receiver) + tx.amount)]

\* Mutant of apply_to_accounts: the sender's balance is not compared with
\* the amount.
apply_to_accounts_no_balance_check(accts, tx) ==
    IF ~Has(accts, tx.sender) \/ ~Has(accts, tx.receiver)
    THEN [raised |-> TRUE, accounts |-> accts]
    ELSE LET debited == SetBalance(accts, tx.sender,
                                   Balance(accts, tx.sender) - tx.amount)
         IN  [raised |-> FALSE,
              accounts |-> SetBalance(debited, tx.receiver,
                                      Balance(debited, tx.receiver) + tx.amount)]

\* Mutant of apply_to_accounts: the receiver is credited, the sender not debited.
apply_to_accounts_no_debit(accts, tx) ==
    IF ~Has(accts, tx.sender) \/ ~Has(accts, tx.receiver)
    THEN [raised |-> TRUE, accounts |-> accts]
    ELSE IF Balance(accts, tx.sender) < tx.amount
    THEN [raised |-> TRUE, accounts |-> accts]
    ELSE [raised |-> FALSE,
          accounts |-> SetBalance(accts, tx.receiver,
                                  Balance(accts, tx.receiver) + tx.amount)]

\* apply_to_accounts: raises, leaving the accounts alone, or debits the
\* sender and then credits the receiver.
apply_to_accounts(accts, tx) ==
    IF ~Has(accts, tx.sender) \/ ~Has(accts, tx.receiver)
    THEN [raised |-> TRUE, accounts |-> accts]
    ELSE IF Balance(accts, tx.sender) < tx.amount
    THEN [raised |-> TRUE, accounts |-> accts]
    ELSE LET debited == SetBalance(accts, tx.sender,
                                   Balance(accts, tx.sender) - tx.amount)
         IN  [raised |-> FALSE,
              accounts |-> SetBalance(debited, tx.receiver,
                                      Balance(debited, tx.receiver) + tx.amount)]

\* The record line of an applied transfer:
\* f"{sender} ({sender_roll}) -> {receiver} ({receiver_roll}): {amount}".
TransferRecord(accts, tx) ==
    Entry("Transfer", tx.sender, RollNo(accts, tx.sender),
          tx.receiver, RollNo(accts, tx.receiver), tx.amount)

\* The "for transaction in self.pending_transactions" loop of mine_block,
\* from position i on.  log keeps, for every transfer tried, the accounts
\* before and after the attempt.
RECURSIVE ProcessLoop(_, _, _, _, _)
ProcessLoop(accts, txs, i, transaction_records, log) ==
    IF i > Len(txs)
    THEN [failed |-> FALSE, accounts |-> accts,
          transaction_records |-> transaction_records, log |-> log]
    ELSE LET r == apply_to_accounts(accts, txs[i])
             step == [tx |-> txs[i], raised |-> r.raised,
                      before |-> accts, after |-> r.accounts]
         IN  IF r.raised
             THEN [failed |-> TRUE, accounts |-> r.accounts,
                   transaction_records |-> transaction_records,
                   log |-> Append(log, step)]
             ELSE ProcessLoop(r.accounts, txs, i + 1,
                              Append(transaction_records,
                                     TransferRecord(r.accounts, txs[i])),
                              Append(log, step))

(***************************************************************************)
(* audit is a record kept beside the program, for the properties only:     *)
(* deposited is the sum of the initial balances of the accounts created,   *)
(* and applied[k] is the number of times the k-th transfer of the queue    *)
(* has been applied to the accounts since it was queued.                   *)
(***************************************************************************)
NoAudit == [deposited |-> 0, applied |-> <<>>]

\* create_account stored an account with this initial balance.
Deposited(a, initial_balance) == [a EXCEPT !.deposited = @ + initial_balance]

\* create_transaction appended a transfer to the queue.
Queued(a) == [a EXCEPT !.applied = Append(@, 0)]

\* mine_block went through the queue: log has one step per transfer it
\* came to, and txs is the queue it left.
Attempted(a, txs, log) ==
    [a EXCEPT !.applied =
        IF txs = <<>> THEN <<>>
        ELSE [k \in 1..Len(@) |->
                 IF k <= Len(log) /\ ~log[k].raised THEN @[k] + 1 ELSE @[k]]]

(***************************************************************************)
(* State.  accounts, pending_transactions and chain are the fields of      *)
(* BlockchainConsole.  assessments counts the levy assessments made so     *)
(* far.  tampered is 0, or the position of the one block whose stored      *)
(* fields were overwritten behind the program's back.  pre and lastOp are  *)
(* history: the ledger as it was when the last operation started, and      *)
(* what that operation was given and did.                                  *)
(***************************************************************************)
Snapshot == [accounts |-> accounts,
             pending_transactions |-> pending_transactions,
             chain |-> chain,
             audit |-> audit]

NoArgs == [none |-> TRUE]

NoZakat == [before |-> <<>>, after |-> <<>>, zakat_collected |-> 0,
            zakat_details |-> <<>>]

Op(op, args, result, zakat, log) ==
    [op |-> op, args |-> args, result |-> result, zakat |-> zakat, log |-> log]

\* BlockchainConsole.__init__
Init ==
    /\ accounts = <<>>
    /\ pending_transactions = <<>>
    /\ chain = Blockchain("SYSTEM")
    /\ assessments = 0
    /\ tampered = 0
    /\ audit = NoAudit
    /\ pre = [accounts |-> <<>>, pending_transactions |-> <<>>,
              chain |-> Blockchain("SYSTEM"), audit |-> NoAudit]
    /\ lastOp = Op("init", NoArgs, "none", NoZakat, <<>>)

\* Mutant of create_account_rejects: a negative initial balance passes.
create_account_rejects_no_negative(accts, account_name, roll_no, initial_balance) ==
    \/ account_name = ""
    \/ Has(accts, account_name)
    \/ roll_no = ""
    \/ ~initial_balance.parsed

\* Mutant of create_account_rejects: no check that the name is already there.
create_account_rejects_no_duplicate(accts, account_name, roll_no, initial_balance) ==
    \/ account_name = ""
    \/ roll_no = ""
    \/ ~initial_balance.parsed
    \/ initial_balance.val < 0

\* The checks of create_account on its three inputs, in the order made.
create_account_rejects(accts, account_name, roll_no, initial_balance) ==
    \/ account_name = ""
    \/ Has(accts, account_name)
    \/ roll_no = ""
    \/ ~initial_balance.parsed
    \/ initial_balance.val < 0

create_account(account_name, roll_no, initial_balance) ==
    /\ pre' = Snapshot
    /\ LET args == [account_name |-> account_name, roll_no |-> roll_no,
                    initial_balance |-> initial_balance]
       IN  IF create_account_rejects(accounts, account_name, roll_no,
                                     initial_balance)
           THEN /\ accounts' = accounts
                /\ audit' = audit
                /\ lastOp' = Op("create_account", args, "rejected", NoZakat, <<>>)
           ELSE /\ accounts' = DictSet(accounts, account_name,
                                       [name |-> account_name,
                                        balance |-> initial_balance.val,
                                        roll_no |-> roll_no])
                /\ audit' = Deposited(audit, initial_balance.val)
                /\ lastOp' = Op("create_account", args, "created", NoZakat, <<>>)
    /\ UNCHANGED <<pending_transactions, chain, assessments, tampered>>

\* Mutant of create_transaction_rejects: an amount of zero passes.
create_transaction_rejects_negative(accts, sender_idx, receiver_idx, amount) ==
    \/ Len(accts) < 2
    \/ sender_idx < 0 \/ sender_idx >= Len(accts)
    \/ receiver_idx < 0 \/ receiver_idx >= Len(accts)
    \/ sender_idx = receiver_idx
    \/ ~amount.parsed
    \/ amount.val < 0
    \/ accts[sender_idx + 1].balance < amount.val

\* The checks of create_transaction on the two menu numbers and the amount.
\* sender_idx and receiver_idx are the numbers typed minus one.
create_transaction_rejects(accts, sender_idx, receiver_idx, amount) ==
    \/ Len(accts) < 2
    \/ sender_idx < 0 \/ sender_idx >= Len(accts)
    \/ receiver_idx < 0 \/ receiver_idx >= Len(accts)
    \/ sender_idx = receiver_idx
    \/ ~amount.parsed
    \/ amount.val <= 0
    \/ accts[sender_idx + 1].balance < amount.val

\* Mutant of enqueue: the new transfer is put at the head of the queue.
enqueue_front(txs, tx) == <<tx>> \o txs

\* self.pending_transactions.append(new_transaction)
enqueue(txs, tx) == Append(txs, tx)

create_transaction(sender_no, receiver_no, amount) ==
    /\ Len(pending_transactions) < MaxPending
    /\ pre' = Snapshot
    /\ LET sender_idx == sender_no - 1
           receiver_idx == receiver_no - 1
           args == [sender_idx |-> sender_idx, receiver_idx |-> receiver_idx,
                    amount |-> amount]
       IN  IF create_transaction_rejects(accounts, sender_idx, receiver_idx, amount)
           THEN /\ pending_transactions' = pending_transactions
                /\ audit' = audit
                /\ lastOp' = Op("create_transaction", args, "rejected", NoZakat, <<>>)
           ELSE /\ pending_transactions' =
                       enqueue(pending_transactions,
                               TransactionWrapper(accounts[sender_idx + 1].name,
                                                  accounts[receiver_idx + 1].name,
                                                  amount.val))
                /\ audit' = Queued(audit)
                /\ lastOp' = Op("create_transaction", args, "added", NoZakat, <<>>)
    /\ UNCHANGED <<accounts, chain, assessments, tampered>>

\* The tax-summary line: f"Zakat Collection: {zakat_collected:.2f} collected".
ZakatRecord(zakat_collected) ==
    Entry("Zakat Collection", "", "", "", "", Fmt2(zakat_collected))

\* Mutant of zakat_records: the summary line is written whatever was collected.
zakat_records_always(zakat_collected) == <<ZakatRecord(zakat_collected)>>

\* transaction_records after "if zakat_collected > 0: append the summary".
zakat_records(zakat_collected) ==
    IF zakat_collected > 0
    THEN <<ZakatRecord(zakat_collected)>>
    ELSE <<>>

\* Mutant of mine_commit: the block is added to a fresh chain, so the blocks
\* mined before are lost.
mine_commit_fresh_chain(accts, txs, ch, transaction_records, now) ==
    LET miner_roll == IF txs # <<>> THEN RollNo(accts, txs[1].sender)
                      ELSE "SYSTEM"
        added == add_block(Blockchain("SYSTEM"), transaction_records,
                           miner_roll, now)
    IN  IF transaction_records # <<>> /\ added.success
        THEN [result |-> "True", pending_transactions |-> <<>>,
              chain |-> added.chain]
        ELSE [result |-> "False", pending_transactions |-> txs, chain |-> ch]

\* Mutant of mine_commit: the miner is the owner of the sender of the last
\* transfer of the batch.
mine_commit_last_sender(accts, txs, ch, transaction_records, now) ==
    LET miner_roll == IF txs # <<>> THEN RollNo(accts, txs[Len(txs)].sender)
                      ELSE "SYSTEM"
        added == add_block(ch, transaction_records, miner_roll, now)
    IN  IF transaction_records # <<>> /\ added.success
        THEN [result |-> "True", pending_transactions |-> <<>>,
              chain |-> added.chain]
        ELSE [result |-> "False", pending_transactions |-> txs, chain |-> ch]

\* Mutant of mine_commit: the queue is not cleared after the block is added.
mine_commit_keeps_queue(accts, txs, ch, transaction_records, now) ==
    LET miner_roll == IF txs # <<>> THEN RollNo(accts, txs[1].sender)
                      ELSE "SYSTEM"
        added == add_block(ch, transaction_records, miner_roll, now)
    IN  IF transaction_records # <<>> /\ added.success
        THEN [result |-> "True", pending_transactions |-> txs,
              chain |-> added.chain]
        ELSE [result |-> "False", pending_transactions |-> txs, chain |-> ch]

\* Mutant of mine_commit: one more line is appended to transaction_records,
\* the list the new block holds, after the block was hashed.
mine_commit_late_record(accts, txs, ch, transaction_records, now) ==
    LET miner_roll == IF txs # <<>> THEN RollNo(accts, txs[1].sender)
                      ELSE "SYSTEM"
        added == add_block(ch, transaction_records, miner_roll, now)
    IN  IF transaction_records # <<>> /\ added.success
        THEN [result |-> "True", pending_transactions |-> <<>>,
              chain |-> [added.chain EXCEPT ![Len(added.chain)].transactions =
                             Append(@, Entry("Mined", "", miner_roll, "", "", 0))]]
        ELSE [result |-> "False", pending_transactions |-> txs, chain |-> ch]

\* The end of mine_block, reached when no transfer raised: the block is
\* added and the queue cleared.  What is returned, and the queue and chain left.
mine_commit(accts, txs, ch, transaction_records, now) ==
    LET miner_roll == IF txs # <<>> THEN RollNo(accts, txs[1].sender)
                      ELSE "SYSTEM"
        added == add_block(ch, transaction_records, miner_roll, now)
    IN  IF transaction_records # <<>> /\ added.success
        THEN [result |-> "True", pending_transactions |-> <<>>,
              chain |-> added.chain]
        ELSE [result |-> "False", pending_transactions |-> txs, chain |-> ch]

\* mine_block from the levy on (the queue is not empty), at time now:
\* the accounts, queue and chain it leaves, and what it returns.
mine_pipeline(accts, txs, ch, now) ==
    LET z == apply_zakat_to_accounts(accts)
        records0 == zakat_records(z.zakat_collected)
        p == ProcessLoop(z.accounts, txs, 1, records0, <<>>)
        c == mine_commit(p.accounts, txs, ch, p.transaction_records, now)
        zakat == [before |-> accts, after |-> z.accounts,
                  zakat_collected |-> z.zakat_collected,
                  zakat_details |-> z.zakat_details]
    IN  IF p.failed
        THEN [result |-> "False", accounts |-> p.accounts,
              pending_transactions |-> txs, chain |-> ch,
              zakat |-> zakat, log |-> p.log]
        ELSE [result |-> c.result, accounts |-> p.accounts,
              pending_transactions |-> c.pending_transactions,
              chain |-> c.chain, zakat |-> zakat, log |-> p.log]

\* Mutant of mine_block_empty: the levy is taken before the queue is looked at.
mine_block_empty_after_levy ==
    /\ pending_transactions = <<>>
    /\ pre' = Snapshot
    /\ accounts' = apply_zakat_to_accounts(accounts).accounts
    /\ lastOp' = Op("mine_block", NoArgs, "None", NoZakat, <<>>)
    /\ UNCHANGED <<pending_transactions, chain, assessments, tampered, audit>>

\* mine_block on an empty queue: returns None at once.
mine_block_empty ==
    /\ pending_transactions = <<>>
    /\ pre' = Snapshot
    /\ lastOp' = Op("mine_block", NoArgs, "None", NoZakat, <<>>)
    /\ UNCHANGED <<accounts, pending_transactions, chain, assessments, tampered,
                   audit>>

mine_block_batch(now) ==
    /\ pending_transactions # <<>>
    /\ assessments < MaxAssess
    /\ pre' = Snapshot
    /\ LET m == mine_pipeline(accounts, pending_transactions, chain, now)
       IN  /\ accounts' = m.accounts
           /\ pending_transactions' = m.pending_transactions
           /\ chain' = m.chain
           /\ audit' = Attempted(audit, m.pending_transactions, m.log)
           /\ lastOp' = Op("mine_block", [now |-> now], m.result, m.zakat, m.log)
    /\ assessments' = assessments + 1
    /\ UNCHANGED tampered

\* Mutant of validate_blockchain: the verdict of is_valid() is dropped and
\* the chain reported valid.
validate_blockchain_always_valid ==
    /\ pre' = Snapshot
    /\ lastOp' = Op("validate_blockchain", NoArgs, "True", NoZakat, <<>>)
    /\ UNCHANGED <<accounts, pending_transactions, chain, assessments, tampered,
                   audit>>

\* What validate_blockchain tells about where the chain is broken: nothing.
\* It prints and returns the verdict only.
NoIndex == -1

first_invalid_index(op) == NoIndex

\* validate_blockchain returns the bare verdict of is_valid().
validate_blockchain ==
    /\ pre' = Snapshot
    /\ lastOp' = Op("validate_blockchain", NoArgs,
                    IF is_valid(chain) THEN "True" ELSE "False", NoZakat, <<>>)
    /\ UNCHANGED <<accounts, pending_transactions, chain, assessments, tampered,
                   audit>>

Next ==
    \/ \E inp \in AccountInputs : create_account(inp[1], inp[2], inp[3])
    \/ \E inp \in TransactionInputs(Len(accounts)) :
          create_transaction(inp[1], inp[2], inp[3])
    \/ mine_block_empty
    \/ \E now \in Timestamps : mine_block_batch(now)
    \/ validate_blockchain

Spec == Init /\ [][Next]_vars

(***************************************************************************)
(* The ledger with one corruption: once, the stored entries or the stored  *)
(* hash of one block are overwritten in place, and no hash is recomputed.  *)
(***************************************************************************)
ForgedEntry == Entry("Transfer", "A", "r1", "B", "r2", 999 * Unit)

ForgedHash == <<"forged">>

tamper_entries(j) ==
    /\ tampered = 0
    /\ j \in 1..Len(chain)
    /\ pre' = Snapshot
    /\ chain' = [chain EXCEPT ![j].transactions = <<ForgedEntry>>]
    /\ tampered' = j
    /\ lastOp' = Op("tamper_entries", [index |-> j - 1], "none", NoZakat, <<>>)
    /\ UNCHANGED <<accounts, pending_transactions, assessments, audit>>

tamper_hash(j) ==
    /\ tampered = 0
    /\ j \in 1..Len(chain)
    /\ pre' = Snapshot
    /\ chain' = [chain EXCEPT ![j].hash = ForgedHash]
    /\ tampered' = j
    /\ lastOp' = Op("tamper_hash", [index |-> j - 1], "none", NoZakat, <<>>)
    /\ UNCHANGED <<accounts, pending_transactions, assessments, audit>>

NextTamper ==
    \/ Next
    \/ \E j \in 1..Len(chain) : tamper_entries(j)
    \/ \E j \in 1..Len(chain) : tamper_hash(j)

SpecTamper == Init /\ [][NextTamper]_vars

(***************************************************************************)
(* The transfer loop of mine_block on its own: a ledger of three accounts  *)
(* and a queue of accepted transfers (between two different existing       *)
(* accounts, for a positive amount), whatever the balances have become     *)
(* since the transfers were queued.                                        *)
(***************************************************************************)
LedgerNames == <<"A", "B", "C">>

LedgerRolls == <<"r1", "r2", "r1">>

LedgerBalances == {0, 50 * Unit, 100 * Unit}

Ledgers ==
    {[i \in 1..3 |-> [name |-> LedgerNames[i], balance |-> b[i],
                      roll_no |-> LedgerRolls[i]]] :
        b \in [1..3 -> LedgerBalances]}

QueuedTransfers ==
    {TransactionWrapper(LedgerNames[s], LedgerNames[r], a.val) :
        s \in 1..3, r \in 1..3, a \in Amounts} \
    {TransactionWrapper(LedgerNames[s], LedgerNames[s], a.val) :
        s \in 1..3, a \in Amounts}

Queues == UNION {[1..n -> QueuedTransfers] : n \in 1..MaxPending}

InitApply ==
    /\ accounts \in Ledgers
    /\ pending_transactions \in Queues
    /\ chain = Blockchain("SYSTEM")
    /\ assessments = 0
    /\ tampered = 0
    /\ audit = NoAudit
    /\ pre = [accounts |-> <<>>, pending_transactions |-> <<>>,
              chain |-> Blockchain("SYSTEM"), audit |-> NoAudit]
    /\ lastOp = Op("init", NoArgs, "none", NoZakat, <<>>)

\* for transaction in self.pending_transactions: transaction.apply_to_accounts()
apply_batch ==
    /\ lastOp.op = "init"
    /\ pre' = Snapshot
    /\ LET p == ProcessLoop(accounts, pending_transactions, 1, <<>>, <<>>)
       IN  /\ accounts' = p.accounts
           /\ lastOp' = Op("apply_batch", NoArgs,
                           IF p.failed THEN "False" ELSE "True", NoZakat, p.log)
    /\ UNCHANGED <<pending_transactions, chain, assessments, tampered, audit>>

NextApply == apply_batch

SpecApply == InitApply /\ [][NextApply]_vars

(***************************************************************************)
(* The console with one account rich enough to pay a transfer twice: the   *)
(* same handlers, driven by accounts and transfers that are all accepted   *)
(* or refused on their merits, so that a mining that fails half way can be *)
(* tried again on the same queue.                                          *)
(***************************************************************************)
RetryAccountInputs ==
    {<<"A", "r1", Parsed(100)>>, <<"B", "r2", Parsed(150)>>}

NextRetry ==
    \/ \E inp \in RetryAccountInputs : create_account(inp[1], inp[2], inp[3])
    \/ \E inp \in (1..Len(accounts)) \X (1..Len(accounts)) \X Amounts :
          create_transaction(inp[1], inp[2], inp[3])
    \/ \E now \in Timestamps : mine_block_batch(now)

SpecRetry == Init /\ [][NextRetry]_vars

(***************************************************************************)
(* Properties.                                                             *)
(***************************************************************************)
Mined == lastOp.op = "mine_block" /\ pre.pending_transactions # <<>>

\* Some transfer of the last mined batch raised.
BatchFailed == Mined /\ \E k \in 1..Len(lastOp.log) : lastOp.log[k].raised

LedgerUnchanged ==
    /\ accounts = pre.accounts
    /\ pending_transactions = pre.pending_transactions
    /\ chain = pre.chain

\* C1 (atomicity of mining): when the k-th transfer of the batch fails,
\* mine_block leaves every balance as it was before the call (neither the levy
\* nor transfers 1..k-1 show), the queue as it was, and no new block.
C1_Atomicity == BatchFailed => LedgerUnchanged

\* C2 (empty-batch rejection): mine_block on an empty queue does not report
\* success and changes neither the chain, nor any balance, nor the queue.
C2_EmptyBatchRejected ==
    (lastOp.op = "mine_block" /\ pre.pending_transactions = <<>>)
        => (lastOp.result = "None" /\ LedgerUnchanged)

\* C2 witness: an empty-queue mine_block on a ledger that already holds a
\* mined block and an account the levy would have charged.
C2_Witness ==
    /\ lastOp.op = "mine_block"
    /\ pre.pending_transactions = <<>>
    /\ Len(chain) > 1
    /\ \E i \in 1..Len(accounts) : zakat_due(accounts[i].balance)

\* What one successful application of tx must do to the accounts.
Moved(before, after, tx) ==
    /\ Len(after) = Len(before)
    /\ \A i \in 1..Len(before) :
          /\ after[i].name = before[i].name
          /\ after[i].roll_no = before[i].roll_no
          /\ after[i].balance =
                IF before[i].name = tx.sender THEN before[i].balance - tx.amount
                ELSE IF before[i].name = tx.receiver
                THEN before[i].balance + tx.amount
                ELSE before[i].balance
    /\ SumBalances(after) = SumBalances(before)

\* C3 (conservation): every successful application of a transfer takes exactly
\* amount from the sender, gives exactly amount to the receiver, leaves every
\* other account and so the total alone; a failed application changes nothing.
C3_Conservation ==
    \A k \in 1..Len(lastOp.log) :
        LET st == lastOp.log[k]
        IN  IF st.raised THEN st.after = st.before
            ELSE Moved(st.before, st.after, st.tx)

\* C3 witness: a batch on three accounts whose first transfer was applied
\* and whose second transfer failed.
C3_Witness ==
    /\ lastOp.op = "apply_batch"
    /\ Len(accounts) = 3
    /\ Len(lastOp.log) = 2
    /\ ~lastOp.log[1].raised
    /\ lastOp.log[2].raised

C5_ChainValid ==
    /\ lastOp.op = "init" => Len(chain) = 1
    /\ is_valid(chain)
    /\ \A i \in 1..Len(chain) :
          chain[i].hash = <<chain[i].prev_hash, chain[i].timestamp,
                            chain[i].roll_no, chain[i].transactions>>
    /\ \A i \in 2..Len(chain) : chain[i].prev_hash = chain[i - 1].hash

\* C5 witness: a chain of three blocks, after two successful minings.
C5_Witness ==
    /\ Len(chain) = 3
    /\ lastOp.op = "mine_block"
    /\ lastOp.result = "True"

\* The first index (from 0) at which the chain is broken: the stored hash
\* is not the hash of the block's fields, or the link to the block before
\* is not that block's hash.
Broken(ch, i) ==
    \/ ~verify(ch[i])
    \/ i > 1 /\ ch[i].prev_hash # ch[i - 1].hash

FirstBroken(ch) ==
    IF \E i \in 1..Len(ch) : Broken(ch, i)
    THEN (CHOOSE i \in 1..Len(ch) :
              Broken(ch, i) /\ \A k \in 1..(i - 1) : ~Broken(ch, k)) - 1
    ELSE NoIndex

Validated == lastOp.op = "validate_blockchain"

\* C6 as claimed (tamper detection): once a block's entries or hash were
\* overwritten, validation reports the chain invalid and names the smallest
\* broken index.
C6_TamperLocated ==
    (Validated /\ tampered # 0)
        => /\ lastOp.result = "False"
           /\ first_invalid_index(lastOp) = FirstBroken(chain)

\* C6 as amended (tamper detection): once a block's entries or hash were
\* overwritten, validation reports the chain invalid, whatever was mined
\* since.  No index is reported.
C6_TamperDetected ==
    (Validated /\ tampered # 0) => lastOp.result = "False"

\* C6 witness: a validation after block 1 was overwritten and another block
\* was mined on top of it.
C6_Witness ==
    /\ Validated
    /\ tampered = 2
    /\ Len(chain) = 3
    /\ FirstBroken(chain) = 1
    /\ lastOp.result = "False"

Submitted == lastOp.op = "create_transaction"

\* The account a menu index (from 0) stands for exists.
Listed(accts, idx) == idx >= 0 /\ idx < Len(accts)

\* C7 (submission rejection): create_transaction refuses a transfer whose
\* sender or receiver does not exist, whose sender is its receiver, whose
\* amount is not above zero, or whose amount exceeds the sender's balance; and
\* whenever it refuses, the queue and all balances stay as they were.
C7_SubmissionRejected ==
    Submitted =>
        LET a == lastOp.args
            bad == \/ ~Listed(pre.accounts, a.sender_idx)
                   \/ ~Listed(pre.accounts, a.receiver_idx)
                   \/ a.sender_idx = a.receiver_idx
                   \/ a.amount.parsed /\ a.amount.val <= 0
                   \/ /\ a.amount.parsed
                      /\ pre.accounts[a.sender_idx + 1].balance < a.amount.val
        IN  /\ bad => lastOp.result = "rejected"
            /\ lastOp.result = "rejected" => LedgerUnchanged

\* C7 witness: a transfer between two existing, different accounts, for a
\* positive amount the sender cannot pay, was refused.
C7_Witness ==
    /\ Submitted
    /\ lastOp.result = "rejected"
    /\ Listed(pre.accounts, lastOp.args.sender_idx)
    /\ Listed(pre.accounts, lastOp.args.receiver_idx)
    /\ lastOp.args.sender_idx # lastOp.args.receiver_idx
    /\ lastOp.args.amount.parsed
    /\ lastOp.args.amount.val > 0
    /\ pre.accounts[lastOp.args.sender_idx + 1].balance < lastOp.args.amount.val

\* C8 (submission frame): an accepted create_transaction puts exactly the new
\* transfer at the tail of the queue and changes no account and no block; and
\* no operation other than mine_block changes the balance, name or owner of
\* an existing account.
C8_SubmissionFrame ==
    /\ (Submitted /\ lastOp.result = "added") =>
          /\ pending_transactions =
                pre.pending_transactions \o
                <<[sender   |-> pre.accounts[lastOp.args.sender_idx + 1].name,
                   receiver |-> pre.accounts[lastOp.args.receiver_idx + 1].name,
                   amount   |-> lastOp.args.amount.val]>>
          /\ accounts = pre.accounts
          /\ chain = pre.chain
    /\ lastOp.op # "mine_block" =>
          /\ Len(accounts) >= Len(pre.accounts)
          /\ \A i \in 1..Len(pre.accounts) : accounts[i] = pre.accounts[i]

\* C8 witness: a transfer accepted behind a different transfer already queued.
C8_Witness ==
    /\ Submitted
    /\ lastOp.result = "added"
    /\ Len(pending_transactions) = 2
    /\ pending_transactions[1] # pending_transactions[2]

Created == lastOp.op = "create_account"

\* C9 (account creation): create_account refuses a name that exists and a
\* negative balance, and a refusal leaves every account as it was; on success
\* the one new account, with the balance and owner given, is added and the
\* other accounts stay as they were; the queue and the chain never change.
C9_AccountCreation ==
    Created =>
        LET a == lastOp.args
        IN  /\ Has(pre.accounts, a.account_name) => lastOp.result = "rejected"
            /\ (a.initial_balance.parsed /\ a.initial_balance.val < 0)
                  => lastOp.result = "rejected"
            /\ lastOp.result = "rejected" => accounts = pre.accounts
            /\ lastOp.result = "created" =>
                  /\ ~Has(pre.accounts, a.account_name)
                  /\ accounts = Append(pre.accounts,
                                       [name |-> a.account_name,
                                        balance |-> a.initial_balance.val,
                                        roll_no |-> a.roll_no])
            /\ pending_transactions = pre.pending_transactions
            /\ chain = pre.chain

\* C9 witness: a refused attempt to create, with another owner and balance, an
\* account whose name exists and whose balance a mining has changed since.
C9_Witness ==
    /\ Created
    /\ lastOp.result = "rejected"
    /\ Has(pre.accounts, lastOp.args.account_name)
    /\ lastOp.args.roll_no # RollNo(accounts, lastOp.args.account_name)
    /\ lastOp.args.initial_balance.parsed
    /\ lastOp.args.initial_balance.val # Balance(accounts, lastOp.args.account_name)
    /\ Len(chain) > 1

\* Every transfer of the last mined batch was applied.
BatchApplied ==
    /\ Mined
    /\ Len(lastOp.log) = Len(pre.pending_transactions)
    /\ \A k \in 1..Len(lastOp.log) :
          /\ ~lastOp.log[k].raised
          /\ lastOp.log[k].tx = pre.pending_transactions[k]

\* C10 (successful mining): when every queued transfer is applied, mine_block
\* appends exactly one block, empties the queue and returns True; and it
\* returns True in that case only.
C10_SuccessfulMining ==
    /\ BatchApplied =>
          /\ lastOp.result = "True"
          /\ Len(chain) = Len(pre.chain) + 1
          /\ SubSeq(chain, 1, Len(pre.chain)) = pre.chain
          /\ pending_transactions = <<>>
    /\ (lastOp.op = "mine_block" /\ lastOp.result = "True") => BatchApplied

\* C10 witness: a batch of two transfers mined into a block.
C10_Witness ==
    /\ BatchApplied
    /\ Len(pre.pending_transactions) = 2
    /\ lastOp.result = "True"
    /\ Len(chain) = Len(pre.chain) + 1

(***************************************************************************)
(* C11 .. C20                                                              *)
(***************************************************************************)

\* C11 (non-negative balances): in every reachable state every account's
\* balance is at least zero, and so it is after the levy and after every
\* transfer that mining applies on the way.
C11_NonNegative ==
    /\ \A i \in 1..Len(accounts) : accounts[i].balance >= 0
    /\ \A i \in 1..Len(lastOp.zakat.after) : lastOp.zakat.after[i].balance >= 0
    /\ \A k \in 1..Len(lastOp.log) :
          \A i \in 1..Len(lastOp.log[k].after) :
              lastOp.log[k].after[i].balance >= 0

\* C11 witness: a mined batch that took a sender's whole balance, leaving it
\* at exactly zero.
C11_Witness ==
    /\ Mined
    /\ lastOp.result = "True"
    /\ \E k \in 1..Len(lastOp.log) :
          /\ lastOp.log[k].tx.amount > 0
          /\ Balance(lastOp.log[k].before, lastOp.log[k].tx.sender)
                 = lastOp.log[k].tx.amount
          /\ Balance(lastOp.log[k].after, lastOp.log[k].tx.sender) = 0

\* ch is ch2 or the beginning of ch2.
IsPrefix(ch, ch2) ==
    /\ Len(ch) <= Len(ch2)
    /\ SubSeq(ch2, 1, Len(ch)) = ch

\* C12 (append-only chain): across every operation the chain before it is a
\* prefix of the chain after it; the chain grows only when mine_block
\* succeeds, and then by exactly one block; creating an account, submitting
\* a transfer, a refused or failed mining and a validation leave it as it was.
C12_AppendOnly ==
    /\ lastOp.op = "init" => chain = Blockchain("SYSTEM")
    /\ lastOp.op # "init" =>
          /\ IsPrefix(pre.chain, chain)
          /\ (Mined /\ lastOp.result = "True")
                 => Len(chain) = Len(pre.chain) + 1
          /\ ~(Mined /\ lastOp.result = "True") => chain = pre.chain

\* C12 witness: a second block was mined on top of the first, which is
\* still in its place.
C12_Witness ==
    /\ Mined
    /\ lastOp.result = "True"
    /\ Len(pre.chain) = 2
    /\ Len(chain) = 3
    /\ chain[2] = pre.chain[2]

\* A tax detail entry of a block, one per assessed account, as the claim has
\* it: the account, its owner and the amount taken from it.
DetailEntry(detail) ==
    Entry("Zakat Detail", detail.name, detail.roll_no, "", "", detail.amount)

\* The entry log the claim gives the block mined by the last operation.
ClaimedEntries ==
    LET z == lastOp.zakat
        txs == pre.pending_transactions
    IN  (IF z.zakat_collected > 0
         THEN <<ZakatRecord(z.zakat_collected)>>
                  \o [k \in 1..Len(z.zakat_details) |->
                          DetailEntry(z.zakat_details[k])]
         ELSE <<>>)
        \o [k \in 1..Len(txs) |-> TransferRecord(pre.accounts, txs[k])]

\* C13 as claimed (block entry log): the entries of a mined block are, in
\* order, the tax-summary entry and one detail entry per assessed account
\* when something was collected, then one record per pending transfer in
\* submission order with sender, sender's owner, receiver, receiver's owner
\* and amount.
C13_EntryLog ==
    (Mined /\ lastOp.result = "True")
        => chain[Len(chain)].transactions = ClaimedEntries

\* Some account is at or over the threshold.
SomeAssessed(accts) ==
    \E i \in 1..Len(accts) : accts[i].balance >= Coins(zakat_threshold)

IsSummary(entry) == entry.kind = "Zakat Collection"

\* C14 (tax entry presence): a mined block holds a tax-summary entry if and
\* only if some account had a balance >= the threshold when mine_block was
\* called, which is when a nonzero total was collected; the summary is then
\* the block's first entry and the only one of its kind, and when every
\* account is below the threshold the block holds the transfer records alone.
C14_TaxEntryPresence ==
    (Mined /\ lastOp.result = "True") =>
        LET entries == chain[Len(chain)].transactions
            txs == pre.pending_transactions
            records == [k \in 1..Len(txs) |-> TransferRecord(pre.accounts, txs[k])]
        IN  /\ (\E k \in 1..Len(entries) : IsSummary(entries[k]))
                   <=> SomeAssessed(pre.accounts)
            /\ SomeAssessed(pre.accounts) <=> lastOp.zakat.zakat_collected > 0
            /\ SomeAssessed(pre.accounts)
                   => entries = <<ZakatRecord(lastOp.zakat.zakat_collected)>>
                                    \o records
            /\ ~SomeAssessed(pre.accounts) => entries = records

\* C14 witness, the case without a summary: a block was mined while every
\* account was below the threshold, after an earlier block with a summary.
C14_Witness ==
    /\ Mined
    /\ lastOp.result = "True"
    /\ ~SomeAssessed(pre.accounts)
    /\ Len(chain) = 3
    /\ IsSummary(chain[2].transactions[1])
    /\ ~IsSummary(chain[3].transactions[1])

\* The first transfer record among the entries of a block.
FirstTransfer(entries) ==
    entries[CHOOSE k \in 1..Len(entries) :
                /\ entries[k].kind = "Transfer"
                /\ \A m \in 1..(k - 1) : entries[m].kind # "Transfer"]

Admissible(accts, tx) ==
    /\ tx.sender # tx.receiver
    /\ tx.amount > 0
    /\ Has(accts, tx.sender)
    /\ Has(accts, tx.receiver)
    /\ Balance(accts, tx.sender) >= tx.amount

NameRank(name) ==
    CASE name = "A" -> 1
      [] name = "B" -> 2
      [] name = "C" -> 3
      [] OTHER -> 0

\* C17 as claimed (deterministic assessment order): the detail list that
\* the levy of a mining returns is in ascending order of account name.
C17_DetailsSorted ==
    Mined =>
        LET details == lastOp.zakat.zakat_details
        IN  \A a, b \in 1..Len(details) :
                a < b => NameRank(details[a].name) < NameRank(details[b].name)

\* C18 as claimed (at-most-once application): whatever is submitted and
\* however often mining is tried, failed attempts on the same queue
\* included, no transfer is applied to the accounts more than once.
C18_AtMostOnce ==
    /\ Len(audit.applied) = Len(pending_transactions)
    /\ \A k \in 1..Len(audit.applied) : audit.applied[k] <= 1
    /\ (Mined /\ lastOp.result = "True")
           => \A k \in 1..Len(pre.audit.applied) : pre.audit.applied[k] = 0

\* The cents written in the tax-summary entries of a list of entries, and
\* of all blocks of a chain.
RECURSIVE SummaryCents(_)
SummaryCents(entries) ==
    IF entries = <<>> THEN 0
    ELSE (IF IsSummary(Head(entries)) THEN Head(entries).amount ELSE 0)
             + SummaryCents(Tail(entries))

RECURSIVE RecordedCents(_)
RecordedCents(ch) ==
    IF ch = <<>> THEN 0
    ELSE SummaryCents(Head(ch).transactions) + RecordedCents(Tail(ch))

\* C19 as claimed (levy accounting): in every reachable state the sum of
\* the balances is the sum of the initial balances of the accounts created
\* less the levy totals written in the tax-summary entries of the blocks of
\* the chain.  Both sides are compared in hundredths of a unit.
C19_LevyAccounting ==
    100 * (audit.deposited - SumBalances(accounts)) = Unit * RecordedCents(chain)

\* The last operation was a create_transaction that put a transfer into an
\* empty queue.
AcceptedAlone ==
    /\ Submitted
    /\ lastOp.result = "added"
    /\ pre.pending_transactions = <<>>
    /\ Len(pending_transactions) = 1

\* A step that is a mine_block called right after AcceptedAlone.
MinedNext == AcceptedAlone /\ lastOp'.op = "mine_block"

\* The step mined the one queued transfer: it was applied after the levy,
\* one block was appended and the queue emptied.
MineSucceeds ==
    /\ lastOp'.result = "True"
    /\ Moved(lastOp'.zakat.after, accounts', pending_transactions[1])
    /\ Len(chain') = Len(chain) + 1
    /\ pending_transactions' = <<>>

\* The step refused the one queued transfer: no block, the queue as it was.
MineFails ==
    /\ lastOp'.result = "False"
    /\ chain' = chain
    /\ pending_transactions' = pending_transactions

\* What the levy leaves of a balance.
AfterLevy(balance) ==
    IF balance >= Coins(zakat_threshold)
    THEN balance - (balance * RateNum) \div RateDen
    ELSE balance

\* C20 as claimed (accepted transfers are minable): when a transfer is
\* accepted into an empty queue and mine_block is the very next operation,
\* mine_block succeeds.
C20_AcceptedMinable == [][MinedNext => MineSucceeds]_vars

\* C20 as amended: when a transfer is accepted into an empty queue and
\* mine_block is the very next operation, mine_block succeeds exactly when
\* what the levy leaves of the sender's balance still covers the amount;
\* otherwise it fails, appends no block and leaves the transfer queued.
C20_MinableAfterLevy ==
    [][MinedNext =>
          LET tx == pending_transactions[1]
          IN  IF AfterLevy(Balance(accounts, tx.sender)) >= tx.amount
              THEN MineSucceeds
              ELSE MineFails]_vars

\* C20 witness: a single transfer that the sender's balance covered when
\* mine_block was called was refused, because the levy came first.
C20_Witness ==
    /\ Mined
    /\ lastOp.result = "False"
    /\ Len(pre.pending_transactions) = 1
    /\ LET tx == pre.pending_transactions[1]
       IN  /\ Balance(pre.accounts, tx.sender) >= tx.amount
           /\ Balance(lastOp.zakat.after, tx.sender) < tx.amount
    /\ chain = pre.chain
    /\ pending_transactions = pre.pending_transactions

====
